---- MODULE Spec2Model ----
(***************************************************************************)
(* Model of the HPGL laser engraver:                                       *)
(*   JobThread            (src/GUI/job_thread.py)                          *)
(*   ArduinoController    (src/GUI/arduino_controller.py)                  *)
(*   MainWindow           (src/GUI/main_window.py)                         *)
(*   HPGLParser           (src/hpgl_parser.py)                             *)
(*   HPGLProcessor        (src/HpglFileProcessor.py)                       *)
(* Spec follows one JobThread: the worker thread runs JobThread.run one    *)
(* statement group at a time (pc holds the source line it is about to      *)
(* execute); the GUI thread calls pause(), resume(), stop() and toggles    *)
(* the serial connection at any point in between; the device puts reply    *)
(* lines into the serial input buffer whenever it likes.                   *)
(* GuiSpec runs the same worker under the handlers of MainWindow, with     *)
(* the buttons that enable them.  ReplySpec is Spec with a device that    *)
(* writes one reply per line received.  ParserSpec applies parse_file of   *)
(* either parser class to HPGL documents and, for an HPGLProcessor, goes   *)
(* on with scale_commands, center_commands (one assignment at a time,      *)
(* another thread reading in between) and save_to_file.                    *)
(***************************************************************************)
EXTENDS Integers, Sequences, FiniteSets, TLC

VARIABLES
    commands,     \* JobThread.commands: the job's command list
    pc,           \* the worker's position in JobThread.run
    i,            \* number of loop iterations completed (enumerate index)
    is_running,   \* JobThread.is_running
    is_paused,    \* JobThread.is_paused
    connected,    \* ArduinoController.is_connected()
    inwaiting,    \* serial.in_waiting > 0: an unread line is in the buffer
    polls,        \* polls made by the current wait_for_response call
    response,     \* the local variable `response` of run()
    log,          \* the worker's sends, completed waits and progress and
                  \* finished signals, in the order they happened
    status,       \* the text of the latest status_update signal
    raised,       \* the line whose call raised, "none" if no exception
    stopPc,       \* history: worker position at the first stop() call
    stopLen,      \* history: Len(log) at the first stop() call
    pausedSends,  \* history: job commands sent with is_paused set and
                  \* is_running set, since is_paused was last set
    \* MainWindow
    job_thread,     \* self.job_thread is not None
    start_enabled,  \* start_button.isEnabled()
    pause_enabled,  \* pause_button.isEnabled()
    stop_enabled,   \* stop_button.isEnabled()
    open_enabled,   \* open_file_button.isEnabled()
    file_selected,  \* file_path_label.text() != "No file selected"
    parsed,         \* hpgl_parser.get_commands()
    slot_done,      \* the job_finished slot has run for self.job_thread
    former,         \* a JobThread that self.job_thread no longer refers to:
                    \* "none", "live" (still in run()) or "finished" (its
                    \* job_finished signal is queued for the GUI thread)
    gui_pc,         \* the GUI thread: "ready", "close_wait", "closed"
    gui_io,         \* history: the first handler that used the session
                    \* while a job thread was live, "none" if none did
    superseded,     \* history: start_job started a thread while an earlier
                    \* one was live
    \* an HPGLParser or HPGLProcessor instance
    cls,            \* its class
    self_commands,  \* self.commands
    self_box,       \* self.min_x, self.min_y, self.max_x, self.max_y
    ret,            \* what the latest call returned
    doc,            \* the document of the latest parse_file call
    prev_commands,  \* history: self.commands before the latest call
    prev_box,       \* history: the bounds before the latest call
    prev_ret,       \* history: what the call before the latest returned
    calls,          \* calls made on the instance
    call,           \* the latest call: the method's name and arguments
    tpc,            \* position inside scale_commands or center_commands
                    \* (the source line to run next), "idle" outside
    locals,         \* scaled_commands or centered_commands, and the
                    \* offsets, of the call in progress
    seen,           \* what a reader of self.commands and the bounds saw
                    \* during the call in progress
    file            \* the file save_to_file has written

jobVars == <<commands, pc, i, is_running, is_paused, connected, inwaiting,
             polls, response, log, status, raised, stopPc, stopLen,
             pausedSends>>
guiVars == <<job_thread, start_enabled, pause_enabled, stop_enabled,
             open_enabled, file_selected, parsed, slot_done, former, gui_pc,
             gui_io, superseded>>
parserVars == <<cls, self_commands, self_box, ret, doc, prev_commands,
                prev_box, prev_ret, calls, call, tpc, locals, seen, file>>
vars == <<jobVars, guiVars, parserVars>>

---------------------------------------------------------------------------
(* Bounds of the model *)

\* longest job
MaxCmds == 10
\* polls of one wait_for_response call before its timeout has elapsed
\* (timeout / polling interval; 10 s / 0.1 s in the program)
MaxPolls == 2
\* longest command list a file opened in the window parses to
MaxFileCmds == 1
\* most pieces after the type in one statement of a document
MaxParams == 4
\* pauses of one job through the window's Pause button
MaxPauses == 1
\* longest job run against the replying device
MaxReplyCmds == 2
\* calls made on one HPGLProcessor instance
MaxCalls == 3
\* the integers that occur in documents
Coords == {1, 2}

---------------------------------------------------------------------------
(* The command list *)

\* The commands of the parser's example document, repeated as needed.
CmdAt(k) ==
    LET r == (k - 1) % 6 IN
    CASE r = 0 -> [type |-> "HOME"]
      [] r = 1 -> [type |-> "PU"]
      [] r = 2 -> [type |-> "PA", x |-> 100, y |-> 200]
      [] r = 3 -> [type |-> "PD"]
      [] r = 4 -> [type |-> "PA", x |-> 150, y |-> 250]
      [] OTHER -> [type |-> "SP", power |-> 127]

Job(n) == [k \in 1..n |-> CmdAt(k)]

\* The command's type alone, without the colon and the parameters.
WireFormBare(cmd) == <<cmd.type>>

\* The line run() hands to send_command for a command.
WireForm(cmd) ==
    CASE cmd.type = "HOME" -> <<"HOME:">>
      [] cmd.type = "PU"   -> <<"PU:">>
      [] cmd.type = "PD"   -> <<"PD:">>
      [] cmd.type = "PA"   -> <<"PA:", cmd.x, cmd.y>>
      [] cmd.type = "SP"   -> <<"SP:", cmd.power>>

\* The status text run() emits after sending a command.
CmdStatus(cmd) ==
    CASE cmd.type = "HOME" -> <<"Homing machine...">>
      [] cmd.type = "PU"   -> <<"Laser OFF">>
      [] cmd.type = "PD"   -> <<"Laser ON">>
      [] cmd.type = "PA"   -> <<"Moving to", cmd.x, cmd.y>>
      [] cmd.type = "SP"   -> <<"Setting laser power to", cmd.power>>

\* A progress computed from i instead of i + 1.
ProgressFromIndex(k, n) == (100 * (k - 1)) \div n

\* The nearest integer to 100*k/n (halves upwards).
RoundPct(k, n) == (200 * k + n) \div (2 * n)

\* int((i + 1) / total_commands * 100), evaluated in IEEE-754 doubles as
\* Python does: the product falls just below the integer 100*k/n exactly
\* when k/n is 0.29, 0.57 or 0.58, and int() then truncates one lower.
FloatShort == {29, 57, 58}
Progress(k, n) ==
    LET q == (100 * k) \div n IN
    IF (100 * k) % n = 0 /\ q \in FloatShort THEN q - 1 ELSE q

\* The line HPGLProcessor.export_to_arduino_commands writes for a command.
ExportLine(cmd) ==
    IF cmd.type = "HOME" THEN <<"HOME:">>
    ELSE IF cmd.type = "PU" THEN <<"PU:">>
    ELSE IF cmd.type = "PD" THEN <<"PD:">>
    ELSE IF cmd.type = "PA" THEN <<"PA:", cmd.x, cmd.y>>
    ELSE IF cmd.type = "SP" THEN <<"SP:", cmd.power>>
    ELSE << >>

---------------------------------------------------------------------------
(* Log entries *)

SendEv(k, cmd, ok) == [ev |-> "send", idx |-> k, line |-> WireForm(cmd), ok |-> ok]
WaitedEv(k)        == [ev |-> "waited", idx |-> k]
ProgressEv(v)      == [ev |-> "progress", val |-> v]
ShutdownEv(ok)     == [ev |-> "shutdown", line |-> <<"PU:">>, ok |-> ok]
FinishedEv         == [ev |-> "finished"]
\* toggle_pause has written "PU" to the port
PauseSendEv        == [ev |-> "pause_send", line |-> <<"PU">>]
\* the device has written the line that answers the k-th line it received
ReplyEv(k)         == [ev |-> "reply", idx |-> k]

total_commands == Len(commands)

---------------------------------------------------------------------------
(* The HPGL parsers: HPGLParser (src/hpgl_parser.py) and HPGLProcessor
   (src/HpglFileProcessor.py).  A document is the list of the statements
   that content.split(';') yields for a file, empty ones dropped; a
   statement is its two-letter type and the list that cmd[2:].split(',')
   yields, each piece either the text of an integer or text that int()
   rejects.  A bound that is still float('inf') or float('-inf') is the
   empty tuple, a finite bound v is <<v>>. *)

IntTok(v) == [k |-> "int", v |-> v]
BadTok    == [k |-> "bad", v |-> 0]
Tok == {IntTok(v) : v \in Coords} \cup {BadTok}
\* the pen numbers of an SP statement
Pens == 0..8
\* the radii of a CI statement
Radii == {1, 10}

Stmt(op, params) == [op |-> op, params |-> params]
ParamLists == UNION {[1..n -> Tok] : n \in 0..MaxParams}
Stmts ==
    {Stmt("IN", << >>)}
        \cup {Stmt(op, ps) : op \in {"PU", "PD", "PA"}, ps \in ParamLists}
        \cup {Stmt("SP", ps) : ps \in {<< >>} \cup {<<t>> : t \in Tok}}
        \cup {Stmt("SP", <<IntTok(p)>>) : p \in Pens}
        \cup {Stmt("CI", ps) : ps \in {<< >>, <<BadTok>>} \cup {<<IntTok(r)>> : r \in Radii}}

\* a file that open() cannot read
Unreadable == [readable |-> FALSE, stmts |-> << >>]
Text(stmts) == [readable |-> TRUE, stmts |-> stmts]

\* Statements a document may begin with.
Heads == {<< >>, <<Stmt("IN", << >>)>>,
          <<Stmt("PA", <<IntTok(2), IntTok(1)>>)>>}
Docs == {Unreadable, Text(<< >>)} \cup {Text(h \o <<s>>) : h \in Heads, s \in Stmts}

\* The documents an instance has parsed before it parses a second one.
SeedDocs ==
    {Text(<<Stmt("IN", << >>), Stmt("PA", <<IntTok(2), IntTok(1)>>)>>),
     Text(<<Stmt("PD", <<IntTok(1), IntTok(1), IntTok(2), IntTok(2)>>)>>),
     Text(<<Stmt("SP", <<IntTok(2)>>)>>),
     Text(<<Stmt("PU", <<BadTok>>)>>)}

NoBox == [min_x |-> << >>, min_y |-> << >>, max_x |-> << >>, max_y |-> << >>]

\* A bound that scale_commands has made a float with a fraction is
\* <<n, d>>, the fraction n/d in lowest terms with d > 1; the values that
\* occur are multiples of a power of 1/2 and exact in double precision.
Num(b) == b[1]
Den(b) == IF Len(b) = 1 THEN 1 ELSE b[2]

\* min(bound, v) and max(bound, v)
MinB(b, v) == IF b = << >> THEN <<v>> ELSE IF v * Den(b) < Num(b) THEN <<v>> ELSE b
MaxB(b, v) == IF b = << >> THEN <<v>> ELSE IF v * Den(b) > Num(b) THEN <<v>> ELSE b

update_bounds(box, x, y) ==
    [min_x |-> MinB(box.min_x, x), min_y |-> MinB(box.min_y, y),
     max_x |-> MaxB(box.max_x, x), max_y |-> MaxB(box.max_y, y)]

\* HPGLParser.get_bounds
get_bounds(box) ==
    IF box.min_x = << >> THEN <<0, 0, 0, 0>>
    ELSE <<box.min_x[1], box.min_y[1], box.max_x[1], box.max_y[1]>>

MoveTo(x, y) == [type |-> "PA", x |-> x, y |-> y]
\* pen / 8 * 255 rounded half up
RoundPower(pen) == (2 * pen * 255 + 8) \div 16
SPPowerRounded(pen) == IF RoundPower(pen) > 255 THEN 255 ELSE RoundPower(pen)
\* min(255, int((pen / 8) * 255)), pen >= 0
SPPower(pen) == IF (pen * 255) \div 8 > 255 THEN 255 ELSE (pen * 255) \div 8

\* The state of an instance during parse_file: the commands and bounds so
\* far, and whether an exception has ended the loop.
Held(cmds, box, failed) == [commands |-> cmds, box |-> box, failed |-> failed]
Emit(s, cmd) == Held(Append(s.commands, cmd), s.box, s.failed)
Raise(s) == Held(s.commands, s.box, TRUE)
EmitMove(s, x, y) == Held(Append(s.commands, MoveTo(x, y)), update_bounds(s.box, x, y), s.failed)

AllInts(ps) == \A j \in 1..Len(ps) : ps[j].k = "int"

\* HPGLParser: coords = cmd[2:].split(','); if len(coords) >= 2: the first
\* two pieces are converted and give one PA, the rest is not looked at.
FirstPair(s, ps) ==
    IF Len(ps) < 2 THEN s
    ELSE IF ps[1].k = "int" /\ ps[2].k = "int" THEN EmitMove(s, ps[1].v, ps[2].v)
    ELSE Raise(s)

\* HPGLProcessor: for i in range(0, len(nums) - 1, 2): one PA per pair,
\* pairs from position j (1, 3, 5, ...) on.
RECURSIVE EachPair(_, _, _)
EachPair(s, ps, j) ==
    IF j + 1 > Len(ps) THEN s
    ELSE EachPair(EmitMove(s, ps[j].v, ps[j + 1].v), ps, j + 2)

\* nums = list(map(int, ...)): every piece is converted before the pairs
\* are taken.
AllPairs(s, ps) == IF AllInts(ps) THEN EachPair(s, ps, 1) ELSE Raise(s)

\* elif cmd_type == 'SP': int(cmd[2:]) of the whole remainder
SelectPen(s, ps) ==
    IF Len(ps) = 0 THEN s
    ELSE IF Len(ps) = 1 /\ ps[1].k = "int"
         THEN Emit(s, [type |-> "SP", power |-> SPPower(ps[1].v)])
    ELSE Raise(s)

\* convert_circle_to_lines(radius, segments=36)
segments == 36

\* int(radius * math.cos(angle)) and int(radius * math.sin(angle)) for
\* angle = 2 * math.pi * k / segments, k = 1..36, as the double-precision
\* computation and the truncation of int() give them, for radius 1 and 10
TruncCos1 ==
    <<0, 0, 0, 0, 0, 0, 0, 0, 0, 0, 0, 0,
      0, 0, 0, 0, 0, -1, 0, 0, 0, 0, 0, 0,
      0, 0, 0, 0, 0, 0, 0, 0, 0, 0, 0, 1>>
TruncSin1 ==
    <<0, 0, 0, 0, 0, 0, 0, 0, 1, 0, 0, 0,
      0, 0, 0, 0, 0, 0, 0, 0, 0, 0, 0, 0,
      0, 0, -1, 0, 0, 0, 0, 0, 0, 0, 0, 0>>
TruncCos10 ==
    <<9, 9, 8, 7, 6, 5, 3, 1, 0, -1, -3, -4,
      -6, -7, -8, -9, -9, -10, -9, -9, -8, -7, -6, -5,
      -3, -1, 0, 1, 3, 4, 6, 7, 8, 9, 9, 10>>
TruncSin10 ==
    <<1, 3, 4, 6, 7, 8, 9, 9, 10, 9, 9, 8,
      7, 6, 5, 3, 1, 0, -1, -3, -5, -6, -7, -8,
      -9, -9, -10, -9, -9, -8, -7, -6, -4, -3, -1, 0>>
TruncCos(radius, k) == IF radius = 1 THEN TruncCos1[k] ELSE TruncCos10[k]
TruncSin(radius, k) == IF radius = 1 THEN TruncSin1[k] ELSE TruncSin10[k]

\* the bounds after update_bounds(x, y) for every one of the moves
Least(S) == CHOOSE m \in S : \A q \in S : m <= q
Greatest(S) == CHOOSE m \in S : \A q \in S : m >= q
UpdateAll(box, moves) ==
    LET xs == {moves[k].x : k \in 1..Len(moves)}
        ys == {moves[k].y : k \in 1..Len(moves)}
    IN  IF moves = << >> THEN box
        ELSE [min_x |-> MinB(box.min_x, Least(xs)), min_y |-> MinB(box.min_y, Least(ys)),
              max_x |-> MaxB(box.max_x, Greatest(xs)),
              max_y |-> MaxB(box.max_y, Greatest(ys))]

\* for k in range(1, segments + 1): one PA per segment end is appended,
\* each updating the bounds
CircleSegments(s, cx, cy, radius) ==
    LET moves == [k \in 1..segments |->
                     MoveTo(cx + TruncCos(radius, k), cy + TruncSin(radius, k))]
    IN  Held(s.commands \o moves, UpdateAll(s.box, moves), s.failed)

\* the commands are left as they are instead of self.commands.pop()
CircleStartKeep(cmds) == cmds
\* self.commands.pop(): the centre is taken off the list
CircleStart(cmds) == SubSeq(cmds, 1, Len(cmds) - 1)

\* HPGLProcessor.convert_circle_to_lines
convert_circle_to_lines(s, radius) ==
    IF s.commands # << >> /\ s.commands[Len(s.commands)].type = "PA"
    THEN LET center == s.commands[Len(s.commands)]
             s1 == Emit(Held(CircleStart(s.commands), s.box, s.failed), [type |-> "PU"])
             s2 == Emit(EmitMove(s1, center.x + radius, center.y), [type |-> "PD"])
         IN  Emit(CircleSegments(s2, center.x, center.y, radius), [type |-> "PU"])
    ELSE s

\* elif cmd_type == 'CI': radius = int(cmd[2:]) of the whole remainder
Circle(s, ps) ==
    IF Len(ps) = 1 /\ ps[1].k = "int" THEN convert_circle_to_lines(s, ps[1].v)
    ELSE Raise(s)

\* One pass of the loop body of HPGLParser.parse_file
ParserStmt(s, st) ==
    CASE st.op = "IN" -> Emit(s, [type |-> "HOME"])
      [] st.op = "PU" -> FirstPair(Emit(s, [type |-> "PU"]), st.params)
      [] st.op = "PD" -> FirstPair(Emit(s, [type |-> "PD"]), st.params)
      [] st.op = "PA" -> FirstPair(s, st.params)
      [] st.op = "SP" -> SelectPen(s, st.params)
      [] OTHER -> s

\* One pass of the loop body of HPGLProcessor.parse_file
ProcessorStmt(s, st) ==
    CASE st.op = "IN" -> Emit(s, [type |-> "HOME"])
      [] st.op = "PU" -> AllPairs(Emit(s, [type |-> "PU"]), st.params)
      [] st.op = "PD" -> AllPairs(Emit(s, [type |-> "PD"]), st.params)
      [] st.op = "PA" -> AllPairs(s, st.params)
      [] st.op = "SP" -> SelectPen(s, st.params)
      [] st.op = "CI" -> Circle(s, st.params)
      [] OTHER -> s

\* the passes of the loop for the statements a..b, the first half of them
\* before the second, until the end or the first exception
RECURSIVE ParseRange(_, _, _, _, _)
ParseRange(c, s, stmts, a, b) ==
    IF s.failed \/ a > b THEN s
    ELSE IF a = b
         THEN IF c = "HPGLParser" THEN ParserStmt(s, stmts[a])
              ELSE ProcessorStmt(s, stmts[a])
    ELSE ParseRange(c, ParseRange(c, s, stmts, a, (a + b) \div 2),
                    stmts, (a + b) \div 2 + 1, b)

\* for cmd in raw_commands: ... from the j-th statement on
ParseLoop(c, s, stmts, j) == ParseRange(c, s, stmts, j, Len(stmts))

\* parse_file up to the loop: HPGLParser calls self.reset(), HPGLProcessor
\* goes on from what the instance holds.
ParseStart(c, cmds, box) ==
    IF c = "HPGLParser" THEN Held(<< >>, NoBox, FALSE) ELSE Held(cmds, box, FALSE)

\* parse_file of class c on an instance holding cmds and box
ParseFile(c, cmds, box, d) ==
    IF d.readable THEN ParseLoop(c, ParseStart(c, cmds, box), d.stmts, 1)
    ELSE Raise(ParseStart(c, cmds, box))

\* What a fresh instance of class c holds after parse_file(d)
Fresh(c, d) == ParseFile(c, << >>, NoBox, d)

Classes == {"HPGLParser", "HPGLProcessor"}

Call(name, args) == [name |-> name, args |-> args]
\* no scaled_commands or centered_commands list exists
NoLocals == [commands |-> << >>, offset_x |-> 0, offset_y |-> 0]
\* nothing was read
NoView == [read |-> FALSE, commands |-> << >>, box |-> NoBox]
View(cmds, box) == [read |-> TRUE, commands |-> cmds, box |-> box]

\* __init__ of class c
NewInstance(c) ==
    /\ cls = c
    /\ self_commands = << >>
    /\ self_box = NoBox
    /\ ret = "none"
    /\ doc = Text(<< >>)
    /\ prev_commands = << >>
    /\ prev_box = NoBox
    /\ prev_ret = "none"
    /\ calls = 0
    /\ call = Call("__init__", << >>)
    /\ tpc = "idle"
    /\ locals = NoLocals
    /\ seen = NoView
    /\ file = Unreadable

---------------------------------------------------------------------------
\* MainWindow.__init__: no job thread, the job buttons disabled, no file.
WindowInit ==
    /\ job_thread = FALSE
    /\ start_enabled = FALSE
    /\ pause_enabled = FALSE
    /\ stop_enabled = FALSE
    /\ open_enabled = TRUE
    /\ file_selected = FALSE
    /\ parsed = << >>
    /\ slot_done = FALSE
    /\ former = "none"
    /\ gui_pc = "ready"
    /\ gui_io = "none"
    /\ superseded = FALSE

\* One JobThread, from start_job to job_finished, for every command list.
Init ==
    /\ WindowInit
    /\ NewInstance("HPGLParser")
    /\ commands \in {Job(n) : n \in 1..MaxCmds}
    /\ pc = "idle"
    /\ i = 0
    /\ is_running = FALSE
    /\ is_paused = FALSE
    /\ connected = FALSE
    /\ inwaiting = FALSE
    /\ polls = 0
    /\ response = "unset"
    /\ log = << >>
    /\ raised = "none"
    /\ status = <<"">>
    /\ stopPc = "none"
    /\ stopLen = 0
    /\ pausedSends = 0

---------------------------------------------------------------------------
(* MainWindow: the GUI thread *)

\* toggle_connection, connect branch: a fresh serial port with its input
\* buffer reset.
Connect ==
    /\ ~connected
    /\ connected' = TRUE
    /\ inwaiting' = FALSE
    /\ UNCHANGED <<guiVars, parserVars>>
    /\ UNCHANGED <<commands, pc, i, is_running, is_paused, polls, response,
                   log, raised, status, stopPc, stopLen, pausedSends>>

\* toggle_connection, disconnect branch: the port is closed.  The button
\* stays enabled while a job runs.
Disconnect ==
    /\ connected
    /\ connected' = FALSE
    /\ inwaiting' = FALSE
    /\ UNCHANGED <<guiVars, parserVars>>
    /\ UNCHANGED <<commands, pc, i, is_running, is_paused, polls, response,
                   log, raised, status, stopPc, stopLen, pausedSends>>

\* start_job: JobThread(arduino, commands) is constructed (both flags
\* False) and start()ed; run() begins later, on the worker thread.
StartJob ==
    /\ pc = "idle"
    /\ connected
    /\ Len(commands) > 0
    /\ pc' = "L18"
    /\ is_running' = FALSE
    /\ is_paused' = FALSE
    /\ UNCHANGED <<guiVars, parserVars>>
    /\ UNCHANGED <<commands, i, connected, inwaiting, polls, response, log,
                   raised, status, stopPc, stopLen, pausedSends>>

JobLive == pc \notin {"idle", "done"}

\* JobThread.pause()
Pause ==
    /\ JobLive
    /\ is_paused' = TRUE
    /\ pausedSends' = IF is_paused THEN pausedSends ELSE 0
    /\ UNCHANGED <<guiVars, parserVars>>
    /\ UNCHANGED <<commands, pc, i, is_running, connected, inwaiting, polls,
                   response, log, raised, status, stopPc, stopLen>>

\* JobThread.resume()
Resume ==
    /\ JobLive
    /\ is_paused' = FALSE
    /\ UNCHANGED <<guiVars, parserVars>>
    /\ UNCHANGED <<commands, pc, i, is_running, connected, inwaiting, polls,
                   response, log, raised, status, stopPc, stopLen,
                   pausedSends>>

\* JobThread.stop()
Stop ==
    /\ JobLive
    /\ is_running' = FALSE
    /\ stopPc' = IF stopPc = "none" THEN pc ELSE stopPc
    /\ stopLen' = IF stopPc = "none" THEN Len(log) ELSE stopLen
    /\ UNCHANGED <<guiVars, parserVars>>
    /\ UNCHANGED <<commands, pc, i, is_paused, connected, inwaiting, polls,
                   response, log, raised, status, pausedSends>>

---------------------------------------------------------------------------
(* The device *)

\* A complete line arrives in the serial input buffer.
DeviceLine ==
    /\ connected
    /\ ~inwaiting
    /\ inwaiting' = TRUE
    /\ UNCHANGED <<guiVars, parserVars>>
    /\ UNCHANGED <<commands, pc, i, is_running, is_paused, connected, polls,
                   response, log, raised, status, stopPc, stopLen,
                   pausedSends>>

\* the lines the device has received, and the replies it has written
Received == Len(SelectSeq(log, LAMBDA e : e.ev \in {"send", "shutdown"} /\ e.ok))
Replied  == Len(SelectSeq(log, LAMBDA e : e.ev = "reply"))

\* The device as the request/reply protocol has it: one reply line for
\* every line received, in the order received, written when the command
\* has been carried out, however long that takes.
DeviceReply ==
    /\ connected
    /\ ~inwaiting
    /\ Replied < Received
    /\ inwaiting' = TRUE
    /\ log' = Append(log, ReplyEv(Replied + 1))
    /\ UNCHANGED <<guiVars, parserVars>>
    /\ UNCHANGED <<commands, pc, i, is_running, is_paused, connected, polls,
                   response, raised, status, stopPc, stopLen, pausedSends>>

---------------------------------------------------------------------------
(* JobThread.run: the worker thread *)

\* for i, cmd in enumerate(self.commands): the loop body again, or the
\* statement after the loop.
LoopHead(j) == IF j < total_commands THEN "L25" ELSE "L62"

\* self.is_running = True
RunL18 ==
    /\ pc = "L18"
    /\ is_running' = TRUE
    /\ pc' = "L19"
    /\ UNCHANGED <<guiVars, parserVars>>
    /\ UNCHANGED <<commands, i, is_paused, connected, inwaiting, polls,
                   response, log, raised, status, stopPc, stopLen,
                   pausedSends>>

\* self.is_paused = False; total_commands = len(self.commands); loop entry
RunL19 ==
    /\ pc = "L19"
    /\ is_paused' = FALSE
    /\ i' = 0
    /\ pc' = LoopHead(0)
    /\ UNCHANGED <<guiVars, parserVars>>
    /\ UNCHANGED <<commands, is_running, connected, inwaiting, polls,
                   response, log, raised, status, stopPc, stopLen,
                   pausedSends>>

\* A loop that never looks at is_paused.
PauseCheckNone(paused) == "L29"

\* while self.is_paused and self.is_running: the read of is_paused
PauseCheck(paused) == IF paused THEN "L25b" ELSE "L29"
RunL25 ==
    /\ pc = "L25"
    /\ pc' = PauseCheck(is_paused)
    /\ UNCHANGED <<guiVars, parserVars>>
    /\ UNCHANGED <<commands, i, is_running, is_paused, connected, inwaiting,
                   polls, response, log, raised, status, stopPc, stopLen,
                   pausedSends>>

\* A pause loop that is `while self.is_paused:` only.
PauseCheckStuck(running) == "L26"

\* ... and the read of is_running
PauseCheckRunning(running) == IF running THEN "L26" ELSE "L29"
RunL25b ==
    /\ pc = "L25b"
    /\ pc' = PauseCheckRunning(is_running)
    /\ UNCHANGED <<guiVars, parserVars>>
    /\ UNCHANGED <<commands, i, is_running, is_paused, connected, inwaiting,
                   polls, response, log, raised, status, stopPc, stopLen,
                   pausedSends>>

\* time.sleep(0.1), then the loop condition again
RunL26 ==
    /\ pc = "L26"
    /\ pc' = "L25"
    /\ UNCHANGED <<guiVars, parserVars>>
    /\ UNCHANGED <<commands, i, is_running, is_paused, connected, inwaiting,
                   polls, response, log, raised, status, stopPc, stopLen,
                   pausedSends>>

\* A stop check that leaves run() instead of the loop (return for break).
StopCheckReturn(running) == IF running THEN "L33" ELSE "L67"

\* A loop without the stop check.
StopCheckNone(running) == "L33"

\* if not self.is_running: break
StopCheck(running) == IF running THEN "L33" ELSE "L62"
RunL29 ==
    /\ pc = "L29"
    /\ pc' = StopCheck(is_running)
    /\ UNCHANGED <<guiVars, parserVars>>
    /\ UNCHANGED <<commands, i, is_running, is_paused, connected, inwaiting,
                   polls, response, log, raised, status, stopPc, stopLen,
                   pausedSends>>

\* send_command(<wire form>) and the status_update that follows it;
\* send_command raises when the controller is not connected.
SendStep(after) ==
    /\ pc = "L33"
    /\ LET cmd == commands[i + 1] IN
       IF connected
       THEN /\ log' = Append(log, SendEv(i + 1, cmd, TRUE))
            /\ status' = CmdStatus(cmd)
            /\ pc' = after
            /\ raised' = raised
       ELSE /\ log' = Append(log, SendEv(i + 1, cmd, FALSE))
            /\ status' = status
            /\ pc' = "L65"
            /\ raised' = "L33"
    /\ pausedSends' = IF is_paused /\ is_running
                      THEN pausedSends + 1 ELSE pausedSends
    /\ UNCHANGED <<guiVars, parserVars>>
    /\ UNCHANGED <<commands, i, is_running, is_paused, connected, inwaiting,
                   polls, response, stopPc, stopLen>>

\* A run() that sends and goes on without waiting for the reply.
RunL33NoWait == SendStep("L54")

\* ... followed by response = self.arduino.wait_for_response()
RunL33 == SendStep("L53")

\* wait_for_response(): the connection check on entry, start_time
RunL53 ==
    /\ pc = "L53"
    /\ IF connected
       THEN /\ polls' = 0
            /\ pc' = "L55"
            /\ raised' = raised
       ELSE /\ polls' = polls
            /\ pc' = "L65"
            /\ raised' = "L53"
    /\ UNCHANGED <<guiVars, parserVars>>
    /\ UNCHANGED <<commands, i, is_running, is_paused, connected, inwaiting,
                   response, log, status, stopPc, stopLen, pausedSends>>

\* What one pass of the polling loop of wait_for_response does: return
\* None once the timeout has elapsed, raise when the port has been closed
\* (in_waiting of a closed port), return the line that is waiting, or
\* sleep and poll again.  The loop reads nothing of the job's flags.  (That
\* in_waiting of a closed port raises is pyserial's behaviour.)
PollOutcome(n, conn, waiting) ==
    IF n >= MaxPolls THEN "timeout"
    ELSE IF ~conn THEN "raise"
    ELSE IF waiting THEN "line"
    ELSE "sleep"

\* The lines the device may have written: an acknowledgment or an error.
Replies == {"OK", "ERR"}

RunL55 ==
    /\ pc = "L55"
    /\ LET o == PollOutcome(polls, connected, inwaiting) IN
       \/ /\ o = "timeout"
          /\ response' = "None"
          /\ log' = Append(log, WaitedEv(i + 1))
          /\ pc' = "L54"
          /\ UNCHANGED <<inwaiting, polls, raised>>
       \/ /\ o = "raise"
          /\ raised' = "L55"
          /\ pc' = "L65"
          /\ UNCHANGED <<inwaiting, polls, response, log>>
       \/ /\ o = "line"
          /\ response' \in Replies
          /\ inwaiting' = FALSE
          /\ log' = Append(log, WaitedEv(i + 1))
          /\ pc' = "L54"
          /\ UNCHANGED <<polls, raised>>
       \/ /\ o = "sleep"
          /\ polls' = polls + 1
          /\ pc' = "L55"
          /\ UNCHANGED <<inwaiting, response, log, raised>>
    /\ UNCHANGED <<guiVars, parserVars>>
    /\ UNCHANGED <<commands, i, is_running, is_paused, connected, status,
                   stopPc, stopLen, pausedSends>>

\* An error status for every reply outcome, the timeout included.
ReplyStatusAlways(resp, st) == <<"Error:", resp>>

\* if response and response.startswith("ERR"): status_update "Error: ..."
ReplyStatus(resp, st) ==
    IF resp # "None" /\ resp = "ERR" THEN <<"Error:", resp>> ELSE st

\* ... progress_update; next iteration
RunL54 ==
    /\ pc = "L54"
    /\ status' = ReplyStatus(response, status)
    /\ log' = Append(log, ProgressEv(Progress(i + 1, total_commands)))
    /\ i' = i + 1
    /\ pc' = LoopHead(i + 1)
    /\ UNCHANGED <<guiVars, parserVars>>
    /\ UNCHANGED <<commands, is_running, is_paused, connected, inwaiting,
                   polls, response, raised, stopPc, stopLen, pausedSends>>

\* self.arduino.send_command('PU:'); status_update "Job completed"
RunL62 ==
    /\ pc = "L62"
    /\ IF connected
       THEN /\ log' = Append(log, ShutdownEv(TRUE))
            /\ status' = <<"Job completed">>
            /\ pc' = "L67"
            /\ raised' = raised
       ELSE /\ log' = Append(log, ShutdownEv(FALSE))
            /\ status' = status
            /\ pc' = "L65"
            /\ raised' = "L62"
    /\ UNCHANGED <<guiVars, parserVars>>
    /\ UNCHANGED <<commands, i, is_running, is_paused, connected, inwaiting,
                   polls, response, stopPc, stopLen, pausedSends>>

\* except Exception as e: status_update "Error: ..."
RunL65 ==
    /\ pc = "L65"
    /\ status' = <<"Error:", "exception">>
    /\ pc' = "L67"
    /\ UNCHANGED <<guiVars, parserVars>>
    /\ UNCHANGED <<commands, i, is_running, is_paused, connected, inwaiting,
                   polls, response, log, raised, stopPc, stopLen,
                   pausedSends>>

\* A run() whose job_finished.emit() is the last statement of the try
\* block instead of the finally block.
RunL67EmitInTry ==
    /\ pc = "L67"
    /\ is_running' = FALSE
    /\ log' = IF raised = "none" THEN Append(log, FinishedEv) ELSE log
    /\ pc' = "done"
    /\ UNCHANGED <<guiVars, parserVars>>
    /\ UNCHANGED <<commands, i, is_paused, connected, inwaiting, polls,
                   response, status, raised, stopPc, stopLen, pausedSends>>

\* finally: self.is_running = False; self.job_finished.emit()
RunL67 ==
    /\ pc = "L67"
    /\ is_running' = FALSE
    /\ log' = Append(log, FinishedEv)
    /\ pc' = "done"
    /\ UNCHANGED <<guiVars, parserVars>>
    /\ UNCHANGED <<commands, i, is_paused, connected, inwaiting, polls,
                   response, status, raised, stopPc, stopLen, pausedSends>>

Worker ==
    \/ RunL18 \/ RunL19 \/ RunL25 \/ RunL25b \/ RunL26 \/ RunL29 \/ RunL33
    \/ RunL53 \/ RunL55 \/ RunL54 \/ RunL62 \/ RunL65 \/ RunL67

Controller == Connect \/ Disconnect \/ StartJob \/ Pause \/ Resume \/ Stop

Next == Worker \/ Controller \/ DeviceLine

Spec == Init /\ [][Next]_vars

\* The same job with a device that writes nothing but replies.
ReplyNext == Worker \/ Controller \/ DeviceReply

ReplyInit == Init /\ Len(commands) <= MaxReplyCmds

ReplySpec == ReplyInit /\ [][ReplyNext]_vars

---------------------------------------------------------------------------
(* MainWindow: the handlers with the buttons that guard them.  self.job_thread
   is the thread the worker actions above run; a thread that start_job has
   replaced is followed only as far as its end (former). *)

\* No JobThread yet, the controller not connected.
JobIdle ==
    /\ commands = << >>
    /\ pc = "idle"
    /\ i = 0
    /\ is_running = FALSE
    /\ is_paused = FALSE
    /\ connected = FALSE
    /\ inwaiting = FALSE
    /\ polls = 0
    /\ response = "unset"
    /\ log = << >>
    /\ raised = "none"
    /\ status = <<"">>
    /\ stopPc = "none"
    /\ stopLen = 0
    /\ pausedSends = 0

GuiInit ==
    /\ WindowInit
    /\ NewInstance("HPGLParser")
    /\ JobIdle
    /\ NewInstance("HPGLParser")

\* a started JobThread has not yet emitted job_finished
ThreadLive == JobLive \/ former = "live"

\* The handler h calls send_command / wait_for_response on self.arduino.
UsesSession(h) ==
    gui_io' = IF gui_io = "none" /\ ThreadLive THEN h ELSE gui_io

\* toggle_connection: disconnect when connected, else connect (a connect
\* that fails changes nothing).  The connect button is never disabled.
toggle_connection ==
    /\ UNCHANGED parserVars
    /\ gui_pc = "ready"
    /\ IF connected
       THEN /\ connected' = FALSE
            /\ inwaiting' = FALSE
            /\ start_enabled' = start_enabled
       ELSE /\ connected' = TRUE
            /\ inwaiting' = FALSE
            /\ start_enabled' = file_selected
    /\ UNCHANGED <<commands, pc, i, is_running, is_paused, polls, response,
                   log, status, raised, stopPc, stopLen, pausedSends>>
    /\ UNCHANGED <<job_thread, pause_enabled, stop_enabled, open_enabled,
                   file_selected, parsed, slot_done, former, gui_pc, gui_io,
                   superseded>>

\* open_file: parse_file(path) replaces the parser's commands, with the
\* whole result when it returns True and with what it had emitted before
\* the failure when it returns False; only a True result touches the
\* window.
open_file ==
    /\ UNCHANGED parserVars
    /\ gui_pc = "ready"
    /\ open_enabled
    /\ \E n \in 0..MaxFileCmds :
          /\ parsed' = Job(n)
          /\ \/ /\ file_selected' = TRUE
                /\ start_enabled' = connected
             \/ UNCHANGED <<file_selected, start_enabled>>
    /\ UNCHANGED jobVars
    /\ UNCHANGED <<job_thread, pause_enabled, stop_enabled, open_enabled,
                   slot_done, former, gui_pc, gui_io, superseded>>

\* start_job: returns early when not connected or without commands; else
\* self.job_thread = JobThread(self.arduino, commands); start(); buttons.
\* (At most one former thread is followed.)
start_job ==
    /\ UNCHANGED parserVars
    /\ gui_pc = "ready"
    /\ start_enabled
    /\ connected
    /\ parsed # << >>
    /\ former = "none" \/ pc = "idle" \/ (pc = "done" /\ slot_done)
    /\ former' = IF JobLive THEN "live"
                 ELSE IF pc = "done" /\ ~slot_done THEN "finished"
                 ELSE former
    /\ superseded' = (superseded \/ ThreadLive)
    /\ job_thread' = TRUE
    /\ slot_done' = FALSE
    /\ commands' = parsed
    /\ pc' = "L18"
    /\ i' = 0
    /\ is_running' = FALSE
    /\ is_paused' = FALSE
    /\ polls' = 0
    /\ response' = "unset"
    /\ log' = << >>
    /\ raised' = "none"
    /\ stopPc' = "none"
    /\ stopLen' = 0
    /\ pausedSends' = 0
    /\ start_enabled' = FALSE
    /\ pause_enabled' = TRUE
    /\ stop_enabled' = TRUE
    /\ open_enabled' = FALSE
    /\ UNCHANGED <<connected, inwaiting, status, file_selected, parsed,
                   gui_pc, gui_io>>

\* the lines toggle_pause has written to the port since the job started
PauseSends == Len(SelectSeq(log, LAMBDA e : e.ev = "pause_send"))

\* toggle_pause: resume() when the thread is paused; else
\* send_command("PU"), wait_for_response() (it takes the line that is
\* waiting, if any) and pause().  Not connected, send_command raises out
\* of the handler and nothing has changed.  (At most MaxPauses pauses of
\* one job are followed.)
toggle_pause ==
    /\ UNCHANGED parserVars
    /\ gui_pc = "ready"
    /\ pause_enabled
    /\ job_thread
    /\ IF is_paused
       THEN /\ is_paused' = FALSE
            /\ UNCHANGED <<inwaiting, pausedSends, gui_io, log>>
       ELSE /\ connected
            /\ PauseSends < MaxPauses
            /\ UsesSession("toggle_pause")
            /\ log' = Append(log, PauseSendEv)
            /\ inwaiting' = FALSE
            /\ is_paused' = TRUE
            /\ pausedSends' = 0
    /\ UNCHANGED <<commands, pc, i, is_running, connected, polls, response,
                   status, raised, stopPc, stopLen>>
    /\ UNCHANGED <<job_thread, start_enabled, pause_enabled, stop_enabled,
                   open_enabled, file_selected, parsed, slot_done, former,
                   gui_pc, superseded>>

\* stop_job: self.job_thread.stop()
stop_job ==
    /\ gui_pc = "ready"
    /\ stop_enabled
    /\ job_thread
    /\ is_running' = FALSE
    /\ stopPc' = IF stopPc = "none" THEN pc ELSE stopPc
    /\ stopLen' = IF stopPc = "none" THEN Len(log) ELSE stopLen
    /\ UNCHANGED <<commands, pc, i, is_paused, connected, inwaiting, polls,
                   response, log, status, raised, pausedSends>>
    /\ UNCHANGED <<guiVars, parserVars>>

\* test_laser: SP:power, PD:, PU:, each followed by wait_for_response();
\* not connected, the first send raises and the handler's except ends it.
\* The button is never disabled.
test_laser ==
    /\ UNCHANGED parserVars
    /\ gui_pc = "ready"
    /\ connected
    /\ UsesSession("test_laser")
    /\ inwaiting' = FALSE
    /\ UNCHANGED <<commands, pc, i, is_running, is_paused, connected, polls,
                   response, log, status, raised, stopPc, stopLen,
                   pausedSends>>
    /\ UNCHANGED <<job_thread, start_enabled, pause_enabled, stop_enabled,
                   open_enabled, file_selected, parsed, slot_done, former,
                   gui_pc, superseded>>

\* The slot job_finished, run on the GUI thread for a queued job_finished
\* signal: the buttons, then "PU" and "PA:0,0" with their waits when
\* connected.
job_finished ==
    /\ UNCHANGED parserVars
    /\ gui_pc = "ready"
    /\ \/ /\ former = "finished"
          /\ former' = "none"
          /\ slot_done' = slot_done
       \/ /\ pc = "done" /\ ~slot_done
          /\ slot_done' = TRUE
          /\ former' = former
    /\ start_enabled' = TRUE
    /\ pause_enabled' = FALSE
    /\ stop_enabled' = FALSE
    /\ open_enabled' = TRUE
    /\ IF connected
       THEN UsesSession("job_finished") /\ inwaiting' = FALSE
       ELSE UNCHANGED <<gui_io, inwaiting>>
    /\ UNCHANGED <<commands, pc, i, is_running, is_paused, connected, polls,
                   response, log, status, raised, stopPc, stopLen,
                   pausedSends>>
    /\ UNCHANGED <<job_thread, file_selected, parsed, gui_pc, superseded>>

\* closeEvent: stop() and wait(1000) when the thread's is_running is set;
\* then, the thread finished or the second elapsed, "PU" with its wait
\* and disconnect() when connected.
closeEvent ==
    \/ /\ UNCHANGED parserVars
       /\ gui_pc = "ready"
       /\ job_thread /\ is_running
       /\ is_running' = FALSE
       /\ stopPc' = IF stopPc = "none" THEN pc ELSE stopPc
       /\ stopLen' = IF stopPc = "none" THEN Len(log) ELSE stopLen
       /\ gui_pc' = "close_wait"
       /\ UNCHANGED <<connected, inwaiting, gui_io>>
       /\ UNCHANGED <<commands, pc, i, is_paused, polls, response, log,
                      status, raised, pausedSends>>
       /\ UNCHANGED <<job_thread, start_enabled, pause_enabled, stop_enabled,
                      open_enabled, file_selected, parsed, slot_done, former,
                      superseded>>
    \/ /\ UNCHANGED parserVars
       /\ \/ gui_pc = "close_wait"
          \/ gui_pc = "ready" /\ ~(job_thread /\ is_running)
       /\ gui_pc' = "closed"
       /\ IF connected
          THEN /\ UsesSession("closeEvent")
               /\ inwaiting' = FALSE
               /\ connected' = FALSE
          ELSE UNCHANGED <<connected, inwaiting, gui_io>>
       /\ UNCHANGED <<is_running, stopPc, stopLen>>
       /\ UNCHANGED <<commands, pc, i, is_paused, polls, response, log,
                      status, raised, pausedSends>>
       /\ UNCHANGED <<job_thread, start_enabled, pause_enabled, stop_enabled,
                      open_enabled, file_selected, parsed, slot_done, former,
                      superseded>>

\* The run() of the former thread ends: finally, job_finished.emit().
FormerEnds ==
    /\ UNCHANGED parserVars
    /\ former = "live"
    /\ former' = "finished"
    /\ UNCHANGED jobVars
    /\ UNCHANGED <<job_thread, start_enabled, pause_enabled, stop_enabled,
                   open_enabled, file_selected, parsed, slot_done, gui_pc,
                   gui_io, superseded>>

Window ==
    \/ toggle_connection \/ open_file \/ start_job \/ toggle_pause
    \/ stop_job \/ test_laser \/ job_finished \/ closeEvent

GuiNext == Worker \/ DeviceLine \/ FormerEnds \/ Window

GuiSpec == GuiInit /\ [][GuiNext]_vars

---------------------------------------------------------------------------
(* scale_commands, center_commands and save_to_file of HPGLProcessor *)

\* scale_factor values (type=float), as numerator and denominator
Factors == {<<3, 4>>, <<2, 1>>}
\* the width and height of the work area
Areas == {<<1800, 1800>>, <<10, 4>>}

Abs(n) == IF n < 0 THEN -n ELSE n
RECURSIVE GCD(_, _)
GCD(a, b) == IF b = 0 THEN a ELSE GCD(b, a % b)
\* the float n/d as a bound
Rat(n, d) ==
    LET g == GCD(Abs(n), d) IN
    IF d \div g = 1 THEN <<n \div g>> ELSE <<n \div g, d \div g>>

\* int(n/d): the fraction is cut off, towards zero
Trunc(n, d) == IF n >= 0 THEN n \div d ELSE -((-n) \div d)
\* n/d rounded to the nearest integer, halves up
RoundHalfUp(n, d) == (2 * n + d) \div (2 * d)

ScaleCoordRounded(x, f) == RoundHalfUp(x * f[1], f[2])
\* int(cmd['x'] * scale_factor)
ScaleCoord(x, f) == Trunc(x * f[1], f[2])
\* self.min_x * scale_factor; inf stays inf for a positive factor
ScaleBound(b, f) == IF b = << >> THEN b ELSE Rat(Num(b) * f[1], Den(b) * f[2])

\* the loop of scale_commands
ScaledCommands(cmds, f) ==
    [k \in 1..Len(cmds) |->
        IF cmds[k].type = "PA"
        THEN MoveTo(ScaleCoord(cmds[k].x, f), ScaleCoord(cmds[k].y, f))
        ELSE cmds[k]]

\* self.max_x - self.min_x
Extent(lo, hi) == Rat(Num(hi) * Den(lo) - Num(lo) * Den(hi), Den(hi) * Den(lo))
\* (width - drawing_width) / 2 - self.min_x
CenterShift(size, lo, hi) ==
    LET e == Extent(lo, hi)
        h == Rat(size * Den(e) - Num(e), 2 * Den(e))
    IN  Rat(Num(h) * Den(lo) - Num(lo) * Den(h), Den(h) * Den(lo))
CenterOffsetRounded(size, lo, hi) ==
    RoundHalfUp(Num(CenterShift(size, lo, hi)), Den(CenterShift(size, lo, hi)))
\* offset_x = int((width - drawing_width) / 2 - self.min_x)
CenterOffset(size, lo, hi) ==
    Trunc(Num(CenterShift(size, lo, hi)), Den(CenterShift(size, lo, hi)))
\* self.min_x += offset_x
ShiftBound(b, k) == Rat(Num(b) + k * Den(b), Den(b))

\* the loop of center_commands
CenteredCommands(cmds, dx, dy) ==
    [k \in 1..Len(cmds) |->
        IF cmds[k].type = "PA" THEN MoveTo(cmds[k].x + dx, cmds[k].y + dy)
        ELSE cmds[k]]

\* max(0, min(8, int((cmd['power'] / 255) * 8))), power >= 0
SavePen(power) == IF (power * 8) \div 255 > 8 THEN 8 ELSE (power * 8) \div 255

\* every PA is written as if the pen were up
PenDownNever(cmds, k) == FALSE
\* the local variable pen_down of save_to_file when the loop reaches the
\* k-th command: False at first, then what the latest PU or PD made it
PenDownAt(cmds, k) ==
    LET pens == {q \in 1..(k - 1) : cmds[q].type \in {"PU", "PD"}} IN
    /\ pens # {}
    /\ cmds[CHOOSE q \in pens : \A q2 \in pens : q2 <= q].type = "PD"

\* what save_to_file writes for the k-th command
SavedStmt(cmds, k) ==
    CASE cmds[k].type = "HOME" -> Stmt("IN", << >>)
      [] cmds[k].type = "PU" -> Stmt("PU", << >>)
      [] cmds[k].type = "PD" -> Stmt("PD", << >>)
      [] cmds[k].type = "PA" ->
            Stmt(IF PenDownAt(cmds, k) THEN "PD" ELSE "PU",
                 <<IntTok(cmds[k].x), IntTok(cmds[k].y)>>)
      [] cmds[k].type = "SP" -> Stmt("SP", <<IntTok(SavePen(cmds[k].power))>>)

\* the HPGL text save_to_file writes
SavedText(cmds) == Text([k \in 1..Len(cmds) |-> SavedStmt(cmds, k)])

---------------------------------------------------------------------------
(* Calls on one instance *)

ParserInit ==
    /\ WindowInit
    /\ JobIdle
    /\ \E c \in Classes : NewInstance(c)

\* parse_file(d): a first document, or a second one after a seed document
parse_file ==
    /\ calls = 0 \/ (calls = 1 /\ doc \in SeedDocs /\ call.name = "parse_file")
    /\ \E d \in Docs :
          LET r == ParseFile(cls, self_commands, self_box, d) IN
          /\ self_commands' = r.commands
          /\ self_box' = r.box
          /\ ret' = IF r.failed THEN "False" ELSE "True"
          /\ doc' = d
    /\ prev_commands' = self_commands
    /\ prev_box' = self_box
    /\ prev_ret' = ret
    /\ calls' = calls + 1
    /\ call' = Call("parse_file", << >>)
    /\ cls' = cls
    /\ UNCHANGED <<tpc, locals, seen, file>>
    /\ UNCHANGED <<jobVars, guiVars>>

\* main(): the transformations and save_to_file follow a parse_file call
\* that returned True
Parsed ==
    \/ call.name = "parse_file" /\ ret = "True"
    \/ call.name \in {"scale_commands", "center_commands"}

\* a call of a method of HPGLProcessor begins
Enter(name, args) ==
    /\ cls = "HPGLProcessor"
    /\ tpc = "idle"
    /\ Parsed
    /\ calls < MaxCalls
    /\ calls' = calls + 1
    /\ call' = Call(name, args)
    /\ prev_commands' = self_commands
    /\ prev_box' = self_box
    /\ prev_ret' = ret
    /\ seen' = NoView
    /\ UNCHANGED <<cls, doc>>

\* scale_commands(scale_factor) up to line 171: the loop has built
\* scaled_commands
scale_commands ==
    /\ \E f \in Factors :
          /\ Enter("scale_commands", f)
          /\ locals' = [commands |-> ScaledCommands(self_commands, f),
                        offset_x |-> 0, offset_y |-> 0]
    /\ tpc' = "L172"
    /\ ret' = "None"
    /\ UNCHANGED <<self_commands, self_box, file>>
    /\ UNCHANGED <<jobVars, guiVars>>

\* one assignment to a bound: field := value, then on to line `next`
SetBound(field, value, next) ==
    /\ self_box' = [self_box EXCEPT ![field] = value]
    /\ tpc' = next
    /\ UNCHANGED <<cls, self_commands, ret, doc, prev_commands, prev_box,
                   prev_ret, calls, call, locals, seen, file>>
    /\ UNCHANGED <<jobVars, guiVars>>

\* self.min_x = self.min_x * scale_factor, and the three lines after it
ScaleL172 ==
    /\ tpc = "L172"
    /\ SetBound("min_x", ScaleBound(self_box.min_x, call.args), "L173")
ScaleL173 ==
    /\ tpc = "L173"
    /\ SetBound("min_y", ScaleBound(self_box.min_y, call.args), "L174")
ScaleL174 ==
    /\ tpc = "L174"
    /\ SetBound("max_x", ScaleBound(self_box.max_x, call.args), "L175")
ScaleL175 ==
    /\ tpc = "L175"
    /\ SetBound("max_y", ScaleBound(self_box.max_y, call.args), "L177")

\* self.commands = scaled_commands (self.commands = centered_commands)
SetCommands ==
    /\ self_commands' = locals.commands
    /\ locals' = NoLocals
    /\ tpc' = "idle"
    /\ UNCHANGED <<cls, self_box, ret, doc, prev_commands, prev_box,
                   prev_ret, calls, call, seen, file>>
    /\ UNCHANGED <<jobVars, guiVars>>

ScaleL177 ==
    /\ tpc = "L177"
    /\ SetCommands

\* center_commands(width, height) up to line 207: it returns when min_x is
\* inf, else the offsets are computed and the loop has built
\* centered_commands
center_commands ==
    /\ \E a \in Areas :
          /\ Enter("center_commands", a)
          /\ IF self_box.min_x = << >>
             THEN /\ locals' = NoLocals
                  /\ tpc' = "idle"
             ELSE LET dx == CenterOffset(a[1], self_box.min_x, self_box.max_x)
                      dy == CenterOffset(a[2], self_box.min_y, self_box.max_y)
                  IN  /\ locals' = [commands |-> CenteredCommands(self_commands, dx, dy),
                                    offset_x |-> dx, offset_y |-> dy]
                      /\ tpc' = "L209"
    /\ ret' = "None"
    /\ UNCHANGED <<self_commands, self_box, file>>
    /\ UNCHANGED <<jobVars, guiVars>>

\* self.min_x += offset_x, and the three lines after it
CenterL209 ==
    /\ tpc = "L209"
    /\ SetBound("min_x", ShiftBound(self_box.min_x, locals.offset_x), "L210")
CenterL210 ==
    /\ tpc = "L210"
    /\ SetBound("min_y", ShiftBound(self_box.min_y, locals.offset_y), "L211")
CenterL211 ==
    /\ tpc = "L211"
    /\ SetBound("max_x", ShiftBound(self_box.max_x, locals.offset_x), "L212")
CenterL212 ==
    /\ tpc = "L212"
    /\ SetBound("max_y", ShiftBound(self_box.max_y, locals.offset_y), "L214")
CenterL214 ==
    /\ tpc = "L214"
    /\ SetCommands

\* Another thread reads self.commands and the four bounds while
\* scale_commands or center_commands is executing.
Reader ==
    /\ tpc # "idle"
    /\ ~seen.read
    /\ seen' = View(self_commands, self_box)
    /\ UNCHANGED <<cls, self_commands, self_box, ret, doc, prev_commands,
                   prev_box, prev_ret, calls, call, tpc, locals, file>>
    /\ UNCHANGED <<jobVars, guiVars>>

\* save_to_file(filename): the file is written and True returned
save_to_file ==
    /\ Enter("save_to_file", << >>)
    /\ file' = SavedText(self_commands)
    /\ ret' = "True"
    /\ UNCHANGED <<self_commands, self_box, tpc, locals>>
    /\ UNCHANGED <<jobVars, guiVars>>

\* HPGLProcessor().parse_file(filename) on the file save_to_file wrote:
\* the new instance takes the place of the one that wrote it
parse_saved ==
    /\ cls = "HPGLProcessor"
    /\ call.name = "save_to_file"
    /\ LET r == Fresh("HPGLProcessor", file) IN
          /\ self_commands' = r.commands
          /\ self_box' = r.box
          /\ ret' = IF r.failed THEN "False" ELSE "True"
    /\ doc' = file
    /\ prev_commands' = self_commands
    /\ prev_box' = self_box
    /\ prev_ret' = ret
    /\ calls' = calls + 1
    /\ call' = Call("parse_saved", << >>)
    /\ UNCHANGED <<cls, tpc, locals, seen, file>>
    /\ UNCHANGED <<jobVars, guiVars>>

ParserNext ==
    \/ parse_file
    \/ scale_commands \/ ScaleL172 \/ ScaleL173 \/ ScaleL174 \/ ScaleL175 \/ ScaleL177
    \/ center_commands \/ CenterL209 \/ CenterL210 \/ CenterL211 \/ CenterL212
    \/ CenterL214
    \/ Reader
    \/ save_to_file
    \/ parse_saved

ParserSpec == ParserInit /\ [][ParserNext]_vars

---------------------------------------------------------------------------
(* Reading the log *)

IsSend(e)     == e.ev = "send"
IsShutdown(e) == e.ev = "shutdown"
IsRoundTrip(e) == e.ev \in {"send", "waited"}

\* send_command calls made for job commands, in order
JobSends == SelectSeq(log, IsSend)
\* job sends and completed reply waits, in order
RoundTrips == SelectSeq(log, IsRoundTrip)
\* positions of the log at which the shutdown send_command('PU:') was called
ShutdownAt == {p \in 1..Len(log) : IsShutdown(log[p])}
\* the part of the log written after the first stop() call
AfterStop == SubSeq(log, stopLen + 1, Len(log))

Stopped == stopPc # "none"
\* the exception, if any, was raised inside the command loop
LoopRaised == raised \in {"L33", "L53", "L55"}

---------------------------------------------------------------------------
(* Claims *)

\* C1: run() sends the job's commands in input order, one at a time: the
\* k-th send_command call of the loop carries the wire form of command k,
\* every send but the latest is followed by the completed reply wait of
\* the same command before the next send, and a job that was neither
\* stopped nor failed has sent every command exactly once when it ends.
C1_OrderedOneAtATime ==
    /\ \A j \in 1..Len(JobSends) :
          /\ JobSends[j].idx = j
          /\ j <= Len(commands)
          /\ JobSends[j].line = WireForm(commands[j])
    /\ \A j \in 1..Len(RoundTrips) :
          /\ RoundTrips[j].ev = IF j % 2 = 1 THEN "send" ELSE "waited"
          /\ RoundTrips[j].idx = (j + 1) \div 2
    /\ (pc = "done" /\ ~Stopped /\ raised = "none")
          => Len(JobSends) = Len(commands)

\* C1 witness: a job of three or more commands ran to its end unstopped.
C1_Witness ==
    /\ pc = "done" /\ ~Stopped /\ raised = "none"
    /\ Len(commands) >= 3
    /\ Len(RoundTrips) = 2 * Len(commands)

\* C2: whenever the command loop has been left without an exception (all
\* commands done, or the stop check broke out of it), run() has called
\* send_command('PU:') exactly once by the time job_finished is emitted,
\* that call is the last send the worker makes, job_finished follows it
\* directly, and the line went out unless that very call raised.  At no
\* time has the shutdown send been made twice or been followed by a job
\* send.
C2_ShutdownOnceAndLast ==
    /\ Cardinality(ShutdownAt) <= 1
    /\ \A p \in ShutdownAt : \A q \in (p + 1)..Len(log) : ~IsSend(log[q])
    /\ (pc = "done" /\ ~LoopRaised) =>
          /\ Cardinality(ShutdownAt) = 1
          /\ Len(log) >= 2
          /\ log[Len(log)] = FinishedEv
          /\ log[Len(log) - 1] = ShutdownEv(raised # "L62")

\* C2 witness: the loop was left by the stop check after a command had
\* been sent, and the run has ended.
C2_Witness ==
    /\ pc = "done" /\ stopPc = "L55" /\ raised = "none"
    /\ Len(JobSends) >= 1 /\ Len(JobSends) < Len(commands)
    /\ log[Len(log) - 1] = ShutdownEv(TRUE)

\* C3: after an exception raised by send_command or wait_for_response in
\* the command loop, run() reports it as a status event and still calls
\* the shutdown send_command('PU:') before it finishes: no run ends
\* without the shutdown send having been attempted.
C3_ShutdownAttemptedAfterFailure ==
    pc = "done" =>
        /\ ShutdownAt # {}
        /\ LoopRaised => status = <<"Error:", "exception">>

\* stop() was first called after run() had executed line 18
StoppedInRun == stopPc \notin {"none", "L18"}
SendsAfterStop == Len(SelectSeq(AfterStop, IsSend))

\* C4 as claimed: once stop() has been called during run(), the worker
\* makes no further send_command call for a job command.
C4_NoJobSendAfterStop ==
    StoppedInRun => SendsAfterStop = 0

\* C4 amended: after a stop() made once run() has set is_running, the
\* worker sends no further job command, except that a stop() arriving
\* between the stop check (line 29) and the send of the same iteration
\* lets that one command go out, as the first thing the worker does after
\* the stop; the only other send is the single shutdown 'PU:'.
C4_AtMostOneJobSendAfterStop ==
    StoppedInRun =>
        /\ SendsAfterStop <= (IF stopPc = "L33" THEN 1 ELSE 0)
        /\ \A p \in 2..Len(AfterStop) : ~IsSend(AfterStop[p])
        /\ Cardinality({p \in 1..Len(AfterStop) : IsShutdown(AfterStop[p])}) <= 1

\* C4 witness: stop() came after the stop check had passed, the command
\* went out, and the run has ended.
C4_Witness ==
    /\ stopPc = "L33" /\ pc = "done"
    /\ SendsAfterStop = 1
    /\ Len(JobSends) < Len(commands)

\* C5: if stop() is called after command k of n (k < n) has been sent and
\* before its reply wait has returned, then the stop does not end the
\* wait (the worker gets past it only with the wait returned, or the
\* session's exception raised), command k+1 is never sent, and when the
\* run has ended the shutdown 'PU:' has been sent and job_finished has
\* been emitted last.
StoppedInWait == stopPc \in {"L53", "L55"} /\ IsSend(log[stopLen])
C5_StopDuringWait ==
    (StoppedInWait /\ log[stopLen].idx < Len(commands)) =>
        /\ SendsAfterStop = 0
        /\ pc \notin {"L53", "L55"} =>
              \/ raised # "none"
              \/ Len(AfterStop) >= 1 /\ AfterStop[1] = WaitedEv(log[stopLen].idx)
        /\ pc = "done" =>
              /\ ShutdownAt # {}
              /\ log[Len(log)] = FinishedEv

\* C6 as claimed: no job command is sent in a state in which is_paused is
\* set and the job has not been stopped.
C6_NoSendWhilePaused ==
    pausedSends = 0

\* C6 amended: while is_paused stays set and the job is not stopped, the
\* worker sends at most one job command: the one whose pause check (line
\* 25) it had already passed when pause() was called.
C6_AtMostOneSendWhilePaused ==
    pausedSends <= 1

\* C6 witness: the worker idles in the pause loop after the one command
\* that went out while is_paused was set.
C6_Witness ==
    /\ pausedSends = 1 /\ is_paused /\ is_running /\ pc = "L26"

\* C7: a stop() issued after start() and before run() has executed its
\* first statement prevents every job command from being sent.
C7_EarlyStopNotLost ==
    stopPc = "L18" => Len(JobSends) = 0

\* C8: after a stop() made while the worker idles in the pause loop, the
\* worker never sleeps in the loop again (it leaves at its next check,
\* resumed or not), every step it takes moves it on towards the end of
\* run(), it sends no job command, and when the run has ended all it has
\* done since the stop is the shutdown 'PU:' send and job_finished.
StoppedWhileIdle == stopPc \in {"L25b", "L26"}
ExitRank(l) ==
    CASE l = "L26" -> 0 [] l = "L25" -> 1 [] l = "L25b" -> 2 [] l = "L29" -> 3
      [] l = "L62" -> 4 [] l = "L65" -> 5 [] l = "L67" -> 6 [] l = "done" -> 7
      [] OTHER -> -1
C8_StopLeavesPauseLoop ==
    [][StoppedWhileIdle' =>
          /\ ExitRank(pc') >= 0
          /\ (pc # "L26" => pc' # "L26")
          /\ (StoppedWhileIdle /\ pc' # pc => ExitRank(pc') > ExitRank(pc))
          /\ SendsAfterStop' = 0
          /\ pc' = "done" => AfterStop' = <<ShutdownEv(raised' # "L62"), FinishedEv>>
      ]_vars

\* C8 witness: the run has ended after a stop() made while the worker
\* slept in the pause loop, and resume() was never needed: is_paused is
\* still set.
C8_Witness ==
    /\ stopPc = "L26" /\ pc = "done" /\ is_paused
    /\ AfterStop = <<ShutdownEv(TRUE), FinishedEv>>
    /\ Len(JobSends) >= 1

\* C9: a poll of wait_for_response made after stop() has been called ends
\* the wait: the worker never sleeps and polls again once the job has been
\* stopped.
C9_WaitEndsAtNextPoll ==
    [][(pc = "L55" /\ Stopped /\ polls' # polls) => pc' # "L55"]_vars

IsWaitOrProgress(e) == e.ev \in {"waited", "progress"}
IsSignalOrShutdown(e) == e.ev \in {"progress", "shutdown", "finished"}
\* completed reply waits and progress_update signals, in order
WaitsAndProgress == SelectSeq(log, IsWaitOrProgress)
\* progress_update signals, the shutdown send and job_finished, in order
SignalsAndShutdown == SelectSeq(log, IsSignalOrShutdown)

\* C10: within one job of n commands the progress events pair off with the
\* completed round trips: the k-th completed wait is followed directly by
\* the k-th progress event and there is no other progress event; the
\* values never decrease; 100 is the value of the last command's event and
\* of no other.  A job of 10 commands whose round trips have all
\* completed has emitted exactly 10, 20, ..., 100, then called the
\* shutdown send_command('PU:'), then emitted job_finished.
C10_ProgressEvents ==
    /\ \A j \in 1..Len(WaitsAndProgress) :
          WaitsAndProgress[j] =
              IF j % 2 = 1 THEN WaitedEv((j + 1) \div 2)
              ELSE ProgressEv(Progress(j \div 2, Len(commands)))
    /\ \A p \in 1..Len(log) :
          log[p].ev = "progress" => p > 1 /\ log[p - 1].ev = "waited"
    /\ Len(WaitsAndProgress) \in {2 * i, 2 * i + 1}
    /\ \A j, k \in 1..i : j <= k => Progress(j, Len(commands)) <= Progress(k, Len(commands))
    /\ \A k \in 1..i : Progress(k, Len(commands)) = 100 <=> k = Len(commands)
    /\ (pc = "done" /\ Len(commands) = 10 /\ i = 10) =>
          SignalsAndShutdown =
              <<ProgressEv(10), ProgressEv(20), ProgressEv(30), ProgressEv(40),
                ProgressEv(50), ProgressEv(60), ProgressEv(70), ProgressEv(80),
                ProgressEv(90), ProgressEv(100),
                ShutdownEv(raised # "L62"), FinishedEv>>

\* C10 witness: a job of 10 commands, every wait answered by a line that
\* is no error, neither stopped nor failed, has ended.
C10_Witness ==
    /\ pc = "done" /\ Len(commands) = 10 /\ i = 10
    /\ ~Stopped /\ raised = "none" /\ response = "OK"
    /\ log[Len(log) - 1] = ShutdownEv(TRUE)

IsProgress(e) == e.ev = "progress"
\* progress_update signals, in order
ProgressEvents == SelectSeq(log, IsProgress)

\* C11 as claimed: the progress value emitted after the k-th round trip of
\* a job of n commands is the nearest integer to 100*k/n.
C11_ProgressIsRounded ==
    \A k \in 1..Len(ProgressEvents) :
        ProgressEvents[k].val = RoundPct(k, Len(commands))

\* C11 amended: the progress value emitted after the k-th round trip of a
\* job of n commands is 100*k/n truncated to an integer, v <= 100*k/n <
\* v + 1 (66 after 2 of 3 commands), or one less than a quotient that is
\* exactly 29, 57 or 58, where the double-precision product falls short.
C11_ProgressIsTruncated ==
    \A k \in 1..Len(ProgressEvents) :
        LET v == ProgressEvents[k].val
            n == Len(commands)
        IN /\ v * n <= 100 * k
           /\ \/ 100 * k < (v + 1) * n
              \/ 100 * k = (v + 1) * n /\ (v + 1) \in FloatShort

\* C11 witness: 2 of 3 commands have completed their round trip and the
\* value emitted for the second is 66.
C11_Witness ==
    /\ Len(commands) = 3 /\ Len(ProgressEvents) = 2
    /\ ProgressEvents[2] = ProgressEv(66)

\* C12: no reply outcome aborts a job.  The step run() takes when a wait
\* has returned emits an error status exactly when the reply is an ERR
\* line and none otherwise (none after a timeout), emits the command's
\* progress event, raises nothing and goes to the next iteration; a
\* send that follows a completed round trip is the send of the next
\* command in sequence, whatever the reply was; and an exception is only
\* ever raised with the session closed.
C12_ReplyNeverAborts ==
    [][/\ (pc = "L54" /\ pc' # pc) =>
             /\ status' = (IF response = "ERR" THEN <<"Error:", "ERR">> ELSE status)
             /\ response \in {"OK", "None"} => status' = CmdStatus(commands[i + 1])
             /\ log' = Append(log, ProgressEv(Progress(i + 1, Len(commands))))
             /\ raised' = raised
             /\ pc' = (IF i + 1 < Len(commands) THEN "L25" ELSE "L62")
       /\ (pc = "L33" /\ pc' # pc /\ i >= 1) =>
             /\ log[Len(log)].ev = "progress"
             /\ log'[Len(log')].ev = "send" /\ log'[Len(log')].idx = i + 1
       /\ raised' # raised => ~connected
      ]_vars

\* C12 witness: the reply to command 1 was an ERR line, its error status
\* and progress event were emitted, and command 2 has been sent.
C12_Witness ==
    /\ pc = "L53" /\ i = 1 /\ response = "ERR" /\ raised = "none"
    /\ Len(log) >= 2
    /\ log[Len(log)] = SendEv(2, commands[2], TRUE)
    /\ log[Len(log) - 1].ev = "progress"

\* positions of the log at which job_finished was emitted
FinishedAt == {p \in 1..Len(log) : log[p] = FinishedEv}

\* C13: every run() that has ended, on every path, has is_running false
\* and has emitted job_finished exactly once, as its last event; before
\* the end job_finished has not been emitted; and an exception raised by
\* send_command or wait_for_response is caught inside run(): control is
\* in the except block, the finally block or past the end.
C13_AlwaysFinishes ==
    /\ pc = "done" =>
          /\ ~is_running
          /\ FinishedAt = {Len(log)}
    /\ pc # "done" => FinishedAt = {}
    /\ raised # "none" => pc \in {"L65", "L67", "done"}
    /\ pc = "done" /\ raised # "none" => status = <<"Error:", "exception">>

\* C13 witness: a run has ended after wait_for_response raised in the
\* middle of the job.
C13_Witness ==
    /\ pc = "done" /\ raised = "L55" /\ ~is_running
    /\ log[Len(log)] = FinishedEv
    /\ Len(JobSends) >= 2

\* C16: every line run() sends for a job command is the wire form of that
\* command, HOME: / PU: / PD: / PA:x,y / SP:power, it is the line that
\* export_to_arduino_commands writes for the same command, and no command
\* is sent twice.
C16_WireForm ==
    /\ \A p \in 1..Len(JobSends) :
          LET e == JobSends[p]
              cmd == commands[e.idx]
          IN /\ e.line = ExportLine(cmd)
             /\ e.line[1] = (CASE cmd.type = "HOME" -> "HOME:"
                               [] cmd.type = "PU" -> "PU:"
                               [] cmd.type = "PD" -> "PD:"
                               [] cmd.type = "PA" -> "PA:"
                               [] cmd.type = "SP" -> "SP:")
             /\ Len(e.line) = (CASE cmd.type = "PA" -> 3
                                 [] cmd.type = "SP" -> 2
                                 [] OTHER -> 1)
             /\ cmd.type = "PA" => e.line[2] = cmd.x /\ e.line[3] = cmd.y
             /\ cmd.type = "SP" => e.line[2] = cmd.power
    /\ \A p, q \in 1..Len(JobSends) : JobSends[p].idx = JobSends[q].idx => p = q

\* C16 witness: a job holding all five command types has sent every one
\* of its commands.
C16_Witness ==
    /\ Len(commands) >= 6 /\ Len(JobSends) = Len(commands)
    /\ \A p \in 1..Len(JobSends) : JobSends[p].ok

\* C14: while a started job thread has not yet emitted job_finished, no
\* handler of the window calls send_command or wait_for_response on the
\* session: the job thread is the only sender and the only reader.
C14_ControllerKeepsOff ==
    gui_io = "none"

\* C15: at most one job is live per session: start_job never creates and
\* starts a JobThread while a thread started earlier has not yet emitted
\* job_finished.
C15_OneLiveJob ==
    ~superseded

\* C17: a failed parse is not committed: when parse_file returns False on
\* an HPGLParser that holds the result of an earlier successful parse,
\* get_commands and get_bounds afterwards return the earlier result.
C17_FailedParseNotCommitted ==
    (cls = "HPGLParser" /\ calls = 2 /\ prev_ret = "True" /\ ret = "False") =>
        /\ self_commands = prev_commands
        /\ get_bounds(self_box) = get_bounds(prev_box)

\* C18: re-parsing replaces and never merges: after two successive
\* successful parse_file calls on one instance, of either class, the
\* commands and the bounds are those a fresh instance produces for the
\* second document alone.
C18_ReparseReplaces ==
    (calls = 2 /\ prev_ret = "True" /\ ret = "True") =>
        /\ self_commands = Fresh(cls, doc).commands
        /\ self_box = Fresh(cls, doc).box

\* the coordinate pairs of a parameter list of integers, in order
PairsOf(ps) == [j \in 1..(Len(ps) \div 2) |-> <<ps[2 * j - 1].v, ps[2 * j].v>>]
MovesOf(ps) == [j \in 1..(Len(ps) \div 2) |-> MoveTo(ps[2 * j - 1].v, ps[2 * j].v)]
PenOf(st) == IF st.op \in {"PU", "PD"} THEN <<[type |-> st.op]>> ELSE << >>

\* the commands the statements from the j-th on stand for: the pen command
\* of a PU or PD, then one MoveTo per pair
RECURSIVE ExpectedFrom(_, _)
ExpectedFrom(stmts, j) ==
    IF j > Len(stmts) THEN << >>
    ELSE PenOf(stmts[j]) \o MovesOf(stmts[j].params) \o ExpectedFrom(stmts, j + 1)

\* all coordinate pairs of the statements
PairSet(stmts) ==
    UNION {{PairsOf(stmts[j].params)[q] : q \in 1..(Len(stmts[j].params) \div 2)}
               : j \in 1..Len(stmts)}
\* the bounds that contain exactly the pairs
TrueBox(pairs) ==
    IF pairs = {} THEN NoBox
    ELSE [min_x |-> <<CHOOSE m \in {q[1] : q \in pairs} : \A q \in pairs : m <= q[1]>>,
          min_y |-> <<CHOOSE m \in {q[2] : q \in pairs} : \A q \in pairs : m <= q[2]>>,
          max_x |-> <<CHOOSE m \in {q[1] : q \in pairs} : \A q \in pairs : m >= q[1]>>,
          max_y |-> <<CHOOSE m \in {q[2] : q \in pairs} : \A q \in pairs : m >= q[2]>>]

\* a document of PA statements only, each with one or more integer pairs
PAOnly(d) ==
    /\ d.readable /\ Len(d.stmts) >= 1
    /\ \A j \in 1..Len(d.stmts) :
          /\ d.stmts[j].op = "PA"
          /\ AllInts(d.stmts[j].params)
          /\ Len(d.stmts[j].params) >= 2
          /\ Len(d.stmts[j].params) % 2 = 0

\* C19: for a document of PA statements only, each carrying one or more
\* integer pairs, parse_file of either class on a new instance succeeds
\* and emits exactly one MoveTo per input pair, in input order, and the
\* bounds are the minimum and maximum x and y over all input pairs.
C19_MoveToPerPair ==
    (calls = 1 /\ PAOnly(doc)) =>
        /\ ret = "True"
        /\ self_commands = ExpectedFrom(doc.stmts, 1)
        /\ self_box = TrueBox(PairSet(doc.stmts))

\* a document of PU and PD statements only, with integer parameters
PenOnly(d) ==
    /\ d.readable /\ Len(d.stmts) >= 1
    /\ \A j \in 1..Len(d.stmts) :
          /\ d.stmts[j].op \in {"PU", "PD"}
          /\ AllInts(d.stmts[j].params)

\* C20: for a PU (PD) statement parse_file of either class first emits
\* PenUp (PenDown) and then one MoveTo for every consecutive coordinate
\* pair of the parameter list, in order, each updating the bounds: m
\* pairs yield m MoveTo commands.
C20_PenThenMoveToPerPair ==
    (calls = 1 /\ PenOnly(doc)) =>
        /\ ret = "True"
        /\ self_commands = ExpectedFrom(doc.stmts, 1)
        /\ Len(self_commands) = 1 + Len(doc.stmts[1].params) \div 2
        /\ self_box = TrueBox(PairSet(doc.stmts))

\* a document whose last statement is SP with one pen number of 0..8
PenDoc(d) ==
    /\ d.readable /\ Len(d.stmts) >= 1
    /\ d.stmts[Len(d.stmts)].op = "SP"
    /\ Len(d.stmts[Len(d.stmts)].params) = 1
    /\ d.stmts[Len(d.stmts)].params[1].k = "int"
    /\ d.stmts[Len(d.stmts)].params[1].v \in Pens
PenNo(d) == d.stmts[Len(d.stmts)].params[1].v
LastCmd == self_commands[Len(self_commands)]

\* C21 as stated: for every pen number p in 0..8 an SP p statement makes
\* parse_file emit SetPower with power min(255, p/8*255 rounded half up),
\* so SP4 gives 128, and every emitted power lies in 0..255.
C21_PowerRounded ==
    (calls = 1 /\ PenDoc(doc)) =>
        /\ ret = "True"
        /\ LastCmd = [type |-> "SP", power |-> SPPowerRounded(PenNo(doc))]
        /\ LastCmd.power \in 0..255

\* C21 amended: for every pen number p in 0..8 an SP p statement makes
\* parse_file emit SetPower with power min(255, int(p/8*255)), the
\* quotient 255p/8 truncated: 0, 31, 63, 95, 127, 159, 191, 223, 255 for
\* SP0..SP8, so SP4 gives 127, and every emitted power lies in 0..255.
C21_PowerTruncated ==
    (calls = 1 /\ PenDoc(doc)) =>
        /\ ret = "True"
        /\ LastCmd.type = "SP"
        /\ LastCmd.power = <<0, 31, 63, 95, 127, 159, 191, 223, 255>>[PenNo(doc) + 1]
        /\ 8 * LastCmd.power <= 255 * PenNo(doc)
        /\ 255 * PenNo(doc) < 8 * (LastCmd.power + 1)
        /\ LastCmd.power \in 0..255

\* C21 witness: SP4 parsed on a new instance gave SetPower(127).
C21_Witness ==
    /\ calls = 1 /\ PenDoc(doc) /\ PenNo(doc) = 4
    /\ LastCmd = [type |-> "SP", power |-> 127]

\* a document whose last statement is CI with an integer radius
CircleDoc(d) ==
    /\ d.readable /\ Len(d.stmts) >= 1
    /\ d.stmts[Len(d.stmts)].op = "CI"
    /\ Len(d.stmts[Len(d.stmts)].params) = 1
    /\ d.stmts[Len(d.stmts)].params[1].k = "int"
\* what the statements before the last one emit on a new HPGLProcessor
BeforeLast(d) == Fresh("HPGLProcessor", Text(SubSeq(d.stmts, 1, Len(d.stmts) - 1)))
\* the coordinate pairs of the MoveTo commands at positions a..b
PointsAt(cmds, a, b) == {<<cmds[k].x, cmds[k].y>> : k \in {q \in a..b : cmds[q].type = "PA"}}
AtMost(b, v) == b # << >> /\ b[1] <= v
AtLeast(b, v) == b # << >> /\ b[1] >= v

\* C22: a CI r statement that follows an emitted MoveTo(cx,cy) removes
\* that MoveTo and appends PenUp, MoveTo(cx+r,cy), PenDown, then exactly
\* 36 MoveTo commands the last of which is MoveTo(cx+r,cy), then PenUp;
\* every appended MoveTo updates the bounds, which afterwards contain
\* (cx-r, cy-r, cx+r, cy+r).  When the last emitted command is not a
\* MoveTo the statement changes neither the commands nor the bounds.
C22_CircleExpansion ==
    (cls = "HPGLProcessor" /\ calls = 1 /\ CircleDoc(doc)) =>
        LET b == BeforeLast(doc).commands
            n == Len(b)
            c == self_commands
            r == doc.stmts[Len(doc.stmts)].params[1].v
        IN  /\ ret = "True"
            /\ IF n >= 1 /\ b[n].type = "PA"
               THEN /\ Len(c) = n - 1 + 3 + segments + 1
                    /\ SubSeq(c, 1, n - 1) = SubSeq(b, 1, n - 1)
                    /\ c[n] = [type |-> "PU"]
                    /\ c[n + 1] = MoveTo(b[n].x + r, b[n].y)
                    /\ c[n + 2] = [type |-> "PD"]
                    /\ \A j \in 1..segments : c[n + 2 + j].type = "PA"
                    /\ c[n + 2 + segments] = MoveTo(b[n].x + r, b[n].y)
                    /\ c[n + 3 + segments] = [type |-> "PU"]
                    /\ self_box = TrueBox(PointsAt(b, 1, n) \cup PointsAt(c, n, Len(c)))
                    /\ AtMost(self_box.min_x, b[n].x - r)
                    /\ AtMost(self_box.min_y, b[n].y - r)
                    /\ AtLeast(self_box.max_x, b[n].x + r)
                    /\ AtLeast(self_box.max_y, b[n].y + r)
               ELSE /\ c = b
                    /\ self_box = BeforeLast(doc).box

\* C22 witness: PA2,1;CI10 parsed by a new HPGLProcessor: 40 commands, the
\* 36th segment end back at (12,1), the bounds reaching down to -8 and -9.
C22_Witness ==
    /\ cls = "HPGLProcessor" /\ calls = 1 /\ CircleDoc(doc)
    /\ Len(self_commands) = 40
    /\ self_commands[39] = MoveTo(12, 1)
    /\ self_box.min_x = <<-8>> /\ self_box.min_y = <<-9>>

\* a call of the named method has returned
Returned(name) == tpc = "idle" /\ call.name = name
\* n/d rounded to the nearest integer, halves down
RoundHalfDown(n, d) == -RoundHalfUp(-n, d)
\* v is n/d rounded to the nearest integer (either neighbour for a half)
Nearest(v, n, d) == v \in {RoundHalfUp(n, d), RoundHalfDown(n, d)}
\* v is n/d with the fraction cut off
CutOff(v, n, d) ==
    /\ Abs(v) * d <= Abs(n) /\ Abs(n) < (Abs(v) + 1) * d
    /\ v * n >= 0
\* bound b equals bound a times n/d
Times(b, a, n, d) ==
    IF a = << >> THEN b = << >>
    ELSE b # << >> /\ Num(b) * Den(a) * d = Num(a) * n * Den(b)
\* bound b equals bound a plus the integer k
Plus(b, a, k) == b # << >> /\ Num(b) * Den(a) = (Num(a) + k * Den(a)) * Den(b)
BoxTimes(box, old, f) ==
    /\ Times(box.min_x, old.min_x, f[1], f[2])
    /\ Times(box.min_y, old.min_y, f[1], f[2])
    /\ Times(box.max_x, old.max_x, f[1], f[2])
    /\ Times(box.max_y, old.max_y, f[1], f[2])
BoxPlus(box, old, dx, dy) ==
    /\ Plus(box.min_x, old.min_x, dx) /\ Plus(box.min_y, old.min_y, dy)
    /\ Plus(box.max_x, old.max_x, dx) /\ Plus(box.max_y, old.max_y, dy)
\* the number and order of commands are kept and every command that is not
\* a MoveTo is unchanged
SameShape(cmds, old) ==
    /\ Len(cmds) = Len(old)
    /\ \A k \in 1..Len(old) :
          IF old[k].type = "PA" THEN cmds[k].type = "PA" ELSE cmds[k] = old[k]

\* C23 as stated: scale_commands(f) keeps the number and order of the
\* commands, leaves every command that is not a MoveTo unchanged, replaces
\* every MoveTo(x,y) by MoveTo(x*f, y*f) rounded to the nearest integer,
\* and multiplies the four bounds by f.
C23_ScaleRounds ==
    Returned("scale_commands") =>
        /\ SameShape(self_commands, prev_commands)
        /\ \A k \in 1..Len(prev_commands) :
              prev_commands[k].type = "PA" =>
                  /\ Nearest(self_commands[k].x, prev_commands[k].x * call.args[1], call.args[2])
                  /\ Nearest(self_commands[k].y, prev_commands[k].y * call.args[1], call.args[2])
        /\ BoxTimes(self_box, prev_box, call.args)

\* C23 amended: scale_commands(f) keeps the number and order of the
\* commands, leaves every command that is not a MoveTo unchanged, replaces
\* every MoveTo(x,y) by MoveTo(int(x*f), int(y*f)), the products with
\* their fraction cut off (towards zero), and multiplies the four bounds
\* by f without cutting anything off.
C23_ScaleTruncates ==
    Returned("scale_commands") =>
        /\ SameShape(self_commands, prev_commands)
        /\ \A k \in 1..Len(prev_commands) :
              prev_commands[k].type = "PA" =>
                  /\ CutOff(self_commands[k].x, prev_commands[k].x * call.args[1], call.args[2])
                  /\ CutOff(self_commands[k].y, prev_commands[k].y * call.args[1], call.args[2])
        /\ BoxTimes(self_box, prev_box, call.args)

\* C23 witness: scale_commands(0.75) has turned MoveTo(2,1) into
\* MoveTo(1,0) and the bound 1 into 0.75.
C23_Witness ==
    /\ Returned("scale_commands") /\ call.args = <<3, 4>>
    /\ \E k \in 1..Len(prev_commands) :
          prev_commands[k] = MoveTo(2, 1) /\ self_commands[k] = MoveTo(1, 0)
    /\ prev_box.min_y = <<1>> /\ self_box.min_y = <<3, 4>>

\* (target - (max - min)) / 2 - min, as numerator and denominator
ShiftNum(size, lo, hi) ==
    size * Den(lo) * Den(hi) - Num(hi) * Den(lo) - Num(lo) * Den(hi)
ShiftDen(lo, hi) == 2 * Den(lo) * Den(hi)
\* the commands and bounds are those before the call moved by (dx, dy)
Moved(dx, dy) ==
    /\ SameShape(self_commands, prev_commands)
    /\ \A k \in 1..Len(prev_commands) :
          prev_commands[k].type = "PA" =>
              self_commands[k] = MoveTo(prev_commands[k].x + dx, prev_commands[k].y + dy)
    /\ BoxPlus(self_box, prev_box, dx, dy)
Untouched == self_commands = prev_commands /\ self_box = prev_box

\* C24 as stated: center_commands(width, height) on a drawing with bounds
\* adds, per axis, the offset (target - extent)/2 - min rounded to the
\* nearest integer to every MoveTo coordinate and to the bounds and leaves
\* the other commands unchanged; without bounds it changes nothing.
C24_CenterRounds ==
    Returned("center_commands") =>
        IF prev_box.min_x = << >> THEN Untouched
        ELSE \E dx \in {RoundHalfUp(ShiftNum(call.args[1], prev_box.min_x, prev_box.max_x),
                                     ShiftDen(prev_box.min_x, prev_box.max_x)),
                         RoundHalfDown(ShiftNum(call.args[1], prev_box.min_x, prev_box.max_x),
                                       ShiftDen(prev_box.min_x, prev_box.max_x))} :
             \E dy \in {RoundHalfUp(ShiftNum(call.args[2], prev_box.min_y, prev_box.max_y),
                                     ShiftDen(prev_box.min_y, prev_box.max_y)),
                         RoundHalfDown(ShiftNum(call.args[2], prev_box.min_y, prev_box.max_y),
                                       ShiftDen(prev_box.min_y, prev_box.max_y))} :
                 Moved(dx, dy)

\* C24 amended: center_commands(width, height) on a drawing with bounds
\* adds, per axis, the offset int((target - extent)/2 - min), the value
\* with its fraction cut off (towards zero), to every MoveTo coordinate
\* and to the bounds and leaves the other commands unchanged; without
\* bounds it changes nothing.
C24_CenterTruncates ==
    Returned("center_commands") =>
        IF prev_box.min_x = << >> THEN Untouched
        ELSE LET dx == Trunc(ShiftNum(call.args[1], prev_box.min_x, prev_box.max_x),
                            ShiftDen(prev_box.min_x, prev_box.max_x))
                 dy == Trunc(ShiftNum(call.args[2], prev_box.min_y, prev_box.max_y),
                            ShiftDen(prev_box.min_y, prev_box.max_y))
             IN  /\ CutOff(dx, ShiftNum(call.args[1], prev_box.min_x, prev_box.max_x),
                           ShiftDen(prev_box.min_x, prev_box.max_x))
                 /\ CutOff(dy, ShiftNum(call.args[2], prev_box.min_y, prev_box.max_y),
                           ShiftDen(prev_box.min_y, prev_box.max_y))
                 /\ Moved(dx, dy)

\* C24 witness: a drawing with bounds 0.75 .. 1.5 was centred in
\* 1800 x 1800: the offset 898.875 was applied as 898.
C24_Witness ==
    /\ Returned("center_commands") /\ call.args = <<1800, 1800>>
    /\ prev_box.min_x = <<3, 4>> /\ prev_box.max_x = <<3, 2>>
    /\ self_box.min_x = <<3595, 4>>
    /\ Moved(898, 898)

\* C25: a reader that reads the command sequence and the bounds while
\* scale_commands or center_commands is executing sees either the
\* complete state before the call or the complete state after it.
C25_ReaderSeesOldOrNew ==
    (seen.read /\ tpc = "idle") =>
        \/ seen = View(prev_commands, prev_box)
        \/ seen = View(self_commands, self_box)

\* bound a is at most bound b
NotAbove(a, b) == Num(a) * Den(b) <= Num(b) * Den(a)
HasMove(cmds) == \E k \in 1..Len(cmds) : cmds[k].type = "PA"

\* C28: for an HPGLProcessor holding at least one MoveTo, after parse_file
\* followed by any sequence of scale_commands and center_commands calls,
\* the bounds are the per-axis minimum and maximum of the MoveTo
\* coordinates in the command list, and min_x <= max_x, min_y <= max_y.
C28_BoundsOfMoves ==
    (cls = "HPGLProcessor" /\ tpc = "idle" /\ Parsed /\ HasMove(self_commands)) =>
        /\ self_box = TrueBox(PointsAt(self_commands, 1, Len(self_commands)))
        /\ NotAbove(self_box.min_x, self_box.max_x)
        /\ NotAbove(self_box.min_y, self_box.max_y)

\* a document of IN, PU, PD, PA and SP statements with integer parameters
PlainDoc(d) ==
    /\ d.readable
    /\ \A j \in 1..Len(d.stmts) :
          /\ d.stmts[j].op \in {"IN", "PU", "PD", "PA", "SP"}
          /\ AllInts(d.stmts[j].params)
OtherClass(c) == IF c = "HPGLParser" THEN "HPGLProcessor" ELSE "HPGLParser"

\* C29: HPGLParser.parse_file and HPGLProcessor.parse_file on a new
\* instance produce the same command sequence and the same bounds for
\* every document of IN, PU, PD, PA and SP statements with integer
\* parameters, statements with more than one coordinate pair included.
C29_ParsersAgree ==
    (calls = 1 /\ PlainDoc(doc)) =>
        /\ self_commands = Fresh(OtherClass(cls), doc).commands
        /\ self_box = Fresh(OtherClass(cls), doc).box

\* the pen is down at the k-th command: the latest PU or PD before it is
\* a PD
PenIsDown(cmds, k) ==
    \E q \in 1..(k - 1) :
        /\ cmds[q].type = "PD"
        /\ \A q2 \in (q + 1)..(k - 1) : cmds[q2].type \notin {"PU", "PD"}
\* the Home and MoveTo commands in order, each MoveTo with the pen state
\* in effect at it
Drawn(cmds) ==
    SelectSeq([k \in 1..Len(cmds) |->
                  [cmd |-> cmds[k],
                   down |-> cmds[k].type = "PA" /\ PenIsDown(cmds, k)]],
              LAMBDA e : e.cmd.type \in {"HOME", "PA"})
PlainList(cmds) == \A k \in 1..Len(cmds) : cmds[k].type \in {"HOME", "PU", "PD", "PA"}

\* C30: writing a command list of HOME, PU, PD and PA commands with
\* save_to_file and parsing the written text with a new HPGLProcessor
\* gives a list with the same sequence of Home and MoveTo commands (same
\* coordinates, same order) and the same pen state at each MoveTo.
C30_SaveAndParse ==
    (Returned("parse_saved") /\ PlainList(prev_commands)) =>
        /\ ret = "True"
        /\ Drawn(self_commands) = Drawn(prev_commands)

\* C30 witness: PD, MoveTo(1,1), MoveTo(2,2) was written as
\* PD;PD1,1;PD2,2; and parsed back to five commands.
C30_Witness ==
    /\ Returned("parse_saved")
    /\ prev_commands = <<[type |-> "PD"], MoveTo(1, 1), MoveTo(2, 2)>>
    /\ self_commands = <<[type |-> "PD"], [type |-> "PD"], MoveTo(1, 1),
                         [type |-> "PD"], MoveTo(2, 2)>>

\* the replies the device has written, in order
RepliesWritten == SelectSeq(log, LAMBDA e : e.ev = "reply")

\* C26: every line that wait_for_response returns to the job thread after
\* it sent command k was written by the device in response to command k,
\* also when the reply to an earlier command arrives after that command's
\* wait timed out.
C26_ReplyOfItsCommand ==
    (pc = "L54" /\ response \in Replies) =>
        /\ RepliesWritten # << >>
        /\ RepliesWritten[Len(RepliesWritten)].idx = i + 1

\* the lines the device has received since the job thread was started, in
\* order
DeviceLines ==
    LET got == SelectSeq(log, LAMBDA e :
                   \/ e.ev \in {"send", "shutdown"} /\ e.ok
                   \/ e.ev = "pause_send")
    IN  [k \in 1..Len(got) |-> got[k].line]
\* the lines of an uninterrupted run of the command list
Uninterrupted == [k \in 1..Len(commands) |-> WireForm(commands[k])] \o <<(<<"PU:">>)>>

\* every pause through the window came before a command of the job was
\* sent: the job was paused while it ran and went on afterwards
PausedDuringJob ==
    \A p \in 1..Len(log) :
        log[p].ev = "pause_send" => \E q \in (p + 1)..Len(log) : log[q].ev = "send"

\* C27: pausing and later resuming a job through toggle_pause is
\* transparent to the device: when the job has sent all its commands and
\* ended, the lines the device received are those of an uninterrupted run
\* of the same command list.
C27_PauseTransparent ==
    (/\ job_thread /\ pc = "done" /\ raised = "none" /\ stopPc = "none"
     /\ Len(JobSends) = Len(commands)
     /\ \A p \in 1..Len(JobSends) : JobSends[p].ok
     /\ PausedDuringJob) =>
        DeviceLines = Uninterrupted

====
